---- MODULE Spec2Model ----
(***************************************************************************)
(* The signup form of src/shared/ui/Authentication/Signup.tsx as a state   *)
(* machine.  A string is a tuple of one-character strings, so that the     *)
(* validators can be computed on it; JavaScript's undefined is the tuple   *)
(* Undefined, which is no string.                                          *)
(*                                                                         *)
(* React semantics: a handler reads the state of the render it was created *)
(* in.  Every event is followed by a render before the next event, so a    *)
(* handler starts from the current state; the setters it calls take effect *)
(* in the next render, so within the handler the state it reads is the     *)
(* state before the step (the unprimed variables).  The part of onSubmit   *)
(* after the await runs later, still reading the values captured at the    *)
(* submit: they travel with the request in inFlight.                       *)
(***************************************************************************)
EXTENDS Bags, FiniteSets, Integers, Sequences, TLC

VARIABLES
    props,                \* the inbound props of the form instance
    email, username, password, fullName, companyName,
    emailValidity, usernameValidity, passwordValidity,
    fullNameValidity, companyNameValidity,
    isLoading, unexpectedError, inviteConflict,
    inFlight,             \* bag of the registration calls awaiting an answer
    ev,                   \* the event handled by the last step
    out                   \* what the last step sent to the collaborators, in order

fields == <<email, username, password, fullName, companyName>>
flags == <<emailValidity, usernameValidity, passwordValidity,
           fullNameValidity, companyNameValidity>>
banners == <<unexpectedError, inviteConflict>>
vars == <<props, fields, flags, isLoading, banners, inFlight, ev, out>>

Undefined == <<"undefined">>

(* the largest number of registration calls awaiting an answer *)
MaxInFlight == 2

----------------------------------------------------------------------------
(* Characters *)

Letters ==
    {"a","b","c","d","e","f","g","h","i","j","k","l","m",
     "n","o","p","q","r","s","t","u","v","w","x","y","z",
     "A","B","C","D","E","F","G","H","I","J","K","L","M",
     "N","O","P","Q","R","S","T","U","V","W","X","Y","Z"}
Digits == {"0","1","2","3","4","5","6","7","8","9"}
Alnum == Letters \cup Digits
(* the grave accent, which a TLA+ string cannot hold *)
Grave == "grave"
(* the class of the local part: letters, digits and the listed punctuation *)
LocalChars ==
    Alnum \cup {".","!","#","$","%","&","'","*","+","/","=","?","^","_",Grave,
                "{","|","}","~","-"}
(* [a-zA-Z0-9-] *)
LabelChars == Alnum \cup {"-"}
(* [-a-zA-Z0-9_.] *)
UsernameChars == Alnum \cup {"-","_","."}
(* the characters the dot of a regular expression does not match *)
LineTerminators == {"\n", "\r"}

From(s, k) == SubSeq(s, k, Len(s))

----------------------------------------------------------------------------
(* Validators *)

isPasswordValid(p) == Len(p) >= 6

(* [a-zA-Z0-9](?:[a-zA-Z0-9-]{0,61}[a-zA-Z0-9])? *)
IsLabel(s) ==
    /\ Len(s) >= 1
    /\ Len(s) <= 63
    /\ s[1] \in Alnum
    /\ s[Len(s)] \in Alnum
    /\ \A i \in 1..Len(s) : s[i] \in LabelChars

(* label(?:.label)*$ : the dot is unescaped and matches any character *)
(* but a line terminator                                              *)
RECURSIVE MatchDomain(_)
MatchDomain(s) ==
    \E k \in 1..Len(s) :
        /\ IsLabel(SubSeq(s, 1, k))
        /\ \/ k = Len(s)
           \/ /\ k + 1 < Len(s)
              /\ s[k + 1] \notin LineTerminators
              /\ MatchDomain(From(s, k + 2))

(* ^[local]+@ domain $ *)
EmailRegexTest(s) ==
    \E p \in 2..Len(s) :
        /\ s[p] = "@"
        /\ \A i \in 1..(p - 1) : s[i] \in LocalChars
        /\ MatchDomain(From(s, p + 1))

isEmailValid(s) == s # <<>> /\ EmailRegexTest(s)

(* isUsernameValid with the quantifier {1,22} *)
isUsernameValid_UpTo22(s) ==
    /\ Len(s) >= 1
    /\ Len(s) <= 22
    /\ \A i \in 1..Len(s) : s[i] \in UsernameChars

(* isUsernameValid with the quantifier {0,21} *)
isUsernameValid_AllowsEmpty(s) ==
    /\ Len(s) <= 21
    /\ \A i \in 1..Len(s) : s[i] \in UsernameChars

isUsernameValid(s) ==
    /\ Len(s) >= 1
    /\ Len(s) <= 21
    /\ \A i \in 1..Len(s) : s[i] \in UsernameChars

isNotEmpty(s) == Len(s) > 0

----------------------------------------------------------------------------
(* The values the model draws from *)

GoodEmail == <<"a","@","b",".","c","o">>
BadEmail == <<"a","@","@","b">>
EmailValues == {<<>>, GoodEmail, BadEmail}
UsernameValues == {<<>>, <<"a","_">>, <<"a"," ">>}
PasswordValues == {<<>>, <<"a","b","c","d","e">>, <<"a","b","c","d","e","f">>}
FullNameValues == {<<>>, <<"A">>}
CompanyNameValues == {<<>>, <<"C">>}
InviteCode == <<"i","c">>
TeamId == <<"t">>
Token == <<"k">>
OtherToken == <<"n">>
Tokens == {Token, OtherToken}
SignupTypes == {"JoinTeam", "CreateTeam"}

FieldNames == {"email", "username", "password", "fullName", "companyName"}

FieldValues(field) ==
    CASE field = "email" -> EmailValues
      [] field = "username" -> UsernameValues
      [] field = "password" -> PasswordValues
      [] field = "fullName" -> FullNameValues
      [] field = "companyName" -> CompanyNameValues

(* interface Props: an invitation carries the team and the JoinTeam      *)
(* variant; without one the variant is CreateTeam or absent.  The invite *)
(* code is a string, which may be empty.                                 *)
PropsSet ==
    { [email |-> e, inviteCode |-> InviteCode, teamId |-> TeamId,
       type |-> "JoinTeam"] : e \in {Undefined, GoodEmail, BadEmail} }
    \cup
    { [email |-> GoodEmail, inviteCode |-> <<>>, teamId |-> TeamId,
       type |-> "JoinTeam"] }
    \cup
    { [email |-> e, inviteCode |-> Undefined, teamId |-> Undefined,
       type |-> t] :
        e \in {Undefined, GoodEmail, BadEmail},
        t \in {"undefined", "CreateTeam"} }

(* LoginResult: the four statuses onSubmit names and one it does not *)
Statuses == {"Success", "NotOnTeam", "AlreadyConfirmed", "InviteConflict",
             "InvalidCredentials"}

(* what the registration call can end with: a response, or a rejection *)
Results ==
    { [ok |-> TRUE, status |-> st, token |-> tk] :
        st \in Statuses, tk \in Tokens }
    \cup { [ok |-> FALSE, error |-> "TransportError"] }

----------------------------------------------------------------------------
(* The component *)

wasInvited == props.inviteCode # Undefined

Validity ==
    [email |-> emailValidity, username |-> usernameValidity,
     password |-> passwordValidity, fullName |-> fullNameValidity,
     companyName |-> companyNameValidity]

SetValidity(f) ==
    /\ emailValidity' = f.email
    /\ usernameValidity' = f.username
    /\ passwordValidity' = f.password
    /\ fullNameValidity' = f.fullName
    /\ companyNameValidity' = f.companyName

(* onValidityChanged with the break of the username case missing, so     *)
(* that it falls through to the password case                            *)
onValidityChanged_UsernameFallsThrough(f, field, validity) ==
    CASE field = "email" -> [f EXCEPT !.email = validity]
      [] field = "username" ->
           [f EXCEPT !.username = validity, !.password = validity]
      [] field = "password" -> [f EXCEPT !.password = validity]
      [] field = "fullName" -> [f EXCEPT !.fullName = validity]
      [] field = "companyName" -> [f EXCEPT !.companyName = validity]
      [] OTHER -> f

(* the switch on the field name: one flag is set, an unknown name sets none *)
onValidityChanged(f, field, validity) ==
    CASE field = "email" -> [f EXCEPT !.email = validity]
      [] field = "username" -> [f EXCEPT !.username = validity]
      [] field = "password" -> [f EXCEPT !.password = validity]
      [] field = "fullName" -> [f EXCEPT !.fullName = validity]
      [] field = "companyName" -> [f EXCEPT !.companyName = validity]
      [] OTHER -> f

(* the validate prop each TextInput is given *)
validate(field, value) ==
    CASE field = "email" -> isEmailValid(value)
      [] field = "username" -> isUsernameValid(value)
      [] field = "password" -> isPasswordValid(value)
      [] field = "fullName" -> isNotEmpty(value)
      [] field = "companyName" -> isNotEmpty(value)

Init ==
    /\ props \in PropsSet
    /\ email = (IF props.email = Undefined THEN <<>> ELSE props.email)
    /\ emailValidity = TRUE
    /\ username = <<>>
    /\ usernameValidity = TRUE
    /\ password = <<>>
    /\ passwordValidity = TRUE
    /\ fullName = <<>>
    /\ fullNameValidity = TRUE
    /\ companyName = <<>>
    /\ companyNameValidity = TRUE
    /\ isLoading = FALSE
    /\ unexpectedError = FALSE
    /\ inviteConflict = FALSE
    /\ inFlight = EmptyBag
    /\ ev = [op |-> "init"]
    /\ out = <<>>

(* the onChange prop each TextInput is given: the setter of its field *)
SetField(field, value) ==
    /\ email' = (IF field = "email" THEN value ELSE email)
    /\ username' = (IF field = "username" THEN value ELSE username)
    /\ password' = (IF field = "password" THEN value ELSE password)
    /\ fullName' = (IF field = "fullName" THEN value ELSE fullName)
    /\ companyName' = (IF field = "companyName" THEN value ELSE companyName)

(* A keystroke in the TextInput of a field: the value is handed to the    *)
(* setter and its validity to onValidityChanged.  The companyName input   *)
(* is rendered only when the form was not invited.                        *)
TextInputChange(field, value) ==
    /\ field = "companyName" => ~wasInvited
    /\ SetField(field, value)
    /\ SetValidity(onValidityChanged(Validity, field, validate(field, value)))
    /\ ev' = [op |-> "change", field |-> field]
    /\ out' = <<>>
    /\ UNCHANGED <<props, isLoading, banners, inFlight>>

(* GateBlocks requiring the company name of an invited form too *)
GateBlocks_CompanyAlways ==
    \/ email = <<>>
    \/ ~emailValidity
    \/ ~usernameValidity
    \/ password = <<>>
    \/ ~passwordValidity
    \/ fullName = <<>>
    \/ ~fullNameValidity
    \/ companyName = <<>>
    \/ ~companyNameValidity

(* GateBlocks refusing a submit while a banner of the last attempt is up *)
GateBlocks_WhileBanner ==
    \/ email = <<>>
    \/ ~emailValidity
    \/ ~usernameValidity
    \/ password = <<>>
    \/ ~passwordValidity
    \/ fullName = <<>>
    \/ ~fullNameValidity
    \/ (~wasInvited /\ (companyName = <<>> \/ ~companyNameValidity))
    \/ unexpectedError
    \/ inviteConflict

(* the condition of the early return of onSubmit, on the state the handler *)
(* reads: the validity flags are those of the render, not the recomputed   *)
GateBlocks ==
    \/ email = <<>>
    \/ ~emailValidity
    \/ ~usernameValidity
    \/ password = <<>>
    \/ ~passwordValidity
    \/ fullName = <<>>
    \/ ~fullNameValidity
    \/ (~wasInvited /\ (companyName = <<>> \/ ~companyNameValidity))

(* Attributes sending the company name of an invited form too *)
Attributes_CompanyAlways ==
    [email |-> email, username |-> username, password |-> password,
     fullName |-> fullName, inviteCode |-> props.inviteCode,
     companyName |-> companyName]

(* const attributes = {...} *)
Attributes ==
    [email |-> email, username |-> username, password |-> password,
     fullName |-> fullName, inviteCode |-> props.inviteCode,
     companyName |-> IF wasInvited THEN Undefined ELSE companyName]

(* the five onValidityChanged calls of onSubmit *)
SubmitValidity ==
    LET f1 == onValidityChanged(Validity, "email", isEmailValid(email))
        f2 == onValidityChanged(f1, "password", isPasswordValid(password))
        f3 == onValidityChanged(f2, "username", isUsernameValid(username))
        f4 == onValidityChanged(f3, "fullName", isNotEmpty(fullName))
    IN  onValidityChanged(f4, "companyName", isNotEmpty(companyName))

(* what the part of onSubmit after the await still reads *)
Closure == [attributes |-> Attributes, email |-> email]

(* setIsLoading(true) placed before the gate *)
LoadingAfterGate_BeforeReturn(blocked) == TRUE

(* setIsLoading(true), which the return of the gate skips *)
LoadingAfterGate(blocked) == IF blocked THEN isLoading ELSE TRUE

(* onSubmit up to the return of the gate or to the await; ev records      *)
(* whether a banner was up when the handler began                         *)
onSubmit ==
    /\ inviteConflict' = FALSE
    /\ unexpectedError' = FALSE
    /\ SetValidity(SubmitValidity)
    /\ isLoading' = LoadingAfterGate(GateBlocks)
    /\ IF GateBlocks
       THEN /\ ev' = [op |-> "submit", sent |-> FALSE,
                      banner |-> inviteConflict \/ unexpectedError]
            /\ out' = <<>>
            /\ UNCHANGED inFlight
       ELSE /\ BagCardinality(inFlight) < MaxInFlight
            /\ inFlight' = inFlight (+) SetToBag({Closure})
            /\ ev' = [op |-> "submit", sent |-> TRUE,
                      banner |-> inviteConflict \/ unexpectedError]
            /\ out' = << [kind |-> "send", attributes |-> Attributes] >>
    /\ UNCHANGED <<props, fields>>

(* sendTelemetry setting "Changed Invite Email?" in the form that was not *)
(* invited as well                                                       *)
sendTelemetry_AlwaysChanged(c) ==
    [kind |-> "track", event |-> "Account Created",
     email |-> c.email,
     changedInviteEmail |-> {c.email # props.email}]

(* HostApi.instance.track("Account Created", ...); the property "Changed  *)
(* Invite Email?" is the set of its value, empty when it is undefined     *)
sendTelemetry(c) ==
    [kind |-> "track", event |-> "Account Created",
     email |-> c.email,
     changedInviteEmail |->
        IF wasInvited THEN {c.email # props.email} ELSE {}]

(* StatusDispatch with the bodies of the NotOnTeam and AlreadyConfirmed  *)
(* cases exchanged                                                       *)
StatusDispatch_CasesExchanged(c, r) ==
    CASE r.status = "Success" ->
           [kind |-> "dispatch", type |-> "goToEmailConfirmation",
            email |-> c.attributes.email, teamId |-> props.teamId,
            registrationParams |-> c.attributes]
      [] r.status = "AlreadyConfirmed" ->
           [kind |-> "dispatch", type |-> "goToTeamCreation",
            token |-> r.token, email |-> c.attributes.email]
      [] r.status = "NotOnTeam" ->
           [kind |-> "dispatch", type |-> "completeSignup",
            email |-> c.attributes.email, token |-> r.token,
            teamId |-> props.teamId, createdTeam |-> FALSE]

(* StatusDispatch reading the form fields of the current render instead  *)
(* of the attributes built at the submit                                 *)
StatusDispatch_CurrentFields(c, r) ==
    CASE r.status = "Success" ->
           [kind |-> "dispatch", type |-> "goToEmailConfirmation",
            email |-> email, teamId |-> props.teamId,
            registrationParams |-> Attributes]
      [] r.status = "NotOnTeam" ->
           [kind |-> "dispatch", type |-> "goToTeamCreation",
            token |-> r.token, email |-> email]
      [] r.status = "AlreadyConfirmed" ->
           [kind |-> "dispatch", type |-> "completeSignup",
            email |-> email, token |-> r.token,
            teamId |-> props.teamId, createdTeam |-> FALSE]

(* the dispatch of each case of the switch on the status *)
StatusDispatch(c, r) ==
    CASE r.status = "Success" ->
           [kind |-> "dispatch", type |-> "goToEmailConfirmation",
            email |-> c.attributes.email, teamId |-> props.teamId,
            registrationParams |-> c.attributes]
      [] r.status = "NotOnTeam" ->
           [kind |-> "dispatch", type |-> "goToTeamCreation",
            token |-> r.token, email |-> c.attributes.email]
      [] r.status = "AlreadyConfirmed" ->
           [kind |-> "dispatch", type |-> "completeSignup",
            email |-> c.attributes.email, token |-> r.token,
            teamId |-> props.teamId, createdTeam |-> FALSE]

(* LogError reading the email field of the current render *)
LogError_CurrentEmail(c, error) ==
    [kind |-> "logError", error |-> error, email |-> email,
     inviteCode |-> props.inviteCode]

(* logError in the catch clause *)
LogError(c, error) ==
    [kind |-> "logError", error |-> error, email |-> c.email,
     inviteCode |-> props.inviteCode]

Navigates == {"Success", "NotOnTeam", "AlreadyConfirmed"}

(* Throws with the break of the InviteConflict case missing, so that the *)
(* case falls through to the default                                     *)
Throws_InviteConflictFallsThrough(r) == ~r.ok \/ r.status \notin Navigates

(* the call is rejected, or its status is one the switch throws *)
Throws(r) == ~r.ok \/ r.status \notin (Navigates \cup {"InviteConflict"})

Thrown(r) == IF r.ok THEN r.status ELSE r.error

(* what the try and catch blocks send out *)
TryEffects(c, r) ==
    IF Throws(r) THEN << LogError(c, Thrown(r)) >>
    ELSE IF r.status \in Navigates THEN << sendTelemetry(c), StatusDispatch(c, r) >>
    ELSE <<>>

(* setInviteConflict(true) in the InviteConflict case *)
InviteConflictAfter(r) ==
    IF r.ok /\ r.status = "InviteConflict" THEN TRUE ELSE inviteConflict

(* setUnexpectedError(true) run after the try statement instead of in the *)
(* catch clause                                                           *)
UnexpectedErrorAfter_Always(r) == TRUE

(* setUnexpectedError(true) in the catch clause *)
UnexpectedErrorAfter(r) == IF Throws(r) THEN TRUE ELSE unexpectedError

(* setIsLoading(false) as the last statement of the try block, which a   *)
(* throw skips                                                            *)
LoadingAtEnd_InsideTry(r) == IF Throws(r) THEN isLoading ELSE FALSE

(* setIsLoading(false) after the try statement *)
LoadingAtEnd(r) == FALSE

(* onSubmit from the answer of the registration call to its end *)
onSubmitResume(c, r) ==
    /\ BagIn(c, inFlight)
    /\ inFlight' = inFlight (-) SetToBag({c})
    /\ out' = TryEffects(c, r)
    /\ inviteConflict' = InviteConflictAfter(r)
    /\ unexpectedError' = UnexpectedErrorAfter(r)
    /\ isLoading' = LoadingAtEnd(r)
    /\ ev' = [op |-> "answer", closure |-> c, result |-> r]
    /\ UNCHANGED <<props, fields, flags>>

(* BackTarget sending the CreateTeam variant to the join-team step *)
BackTarget_Swapped ==
    IF props.type = "CreateTeam" THEN "goToJoinTeam" ELSE "goToNewUserEntry"

(* the switch of onClickGoBack on props.type *)
BackTarget ==
    IF props.type = "JoinTeam" THEN "goToJoinTeam" ELSE "goToNewUserEntry"

onClickGoBack ==
    /\ out' = << [kind |-> "dispatch", type |-> BackTarget] >>
    /\ ev' = [op |-> "back"]
    /\ UNCHANGED <<props, fields, flags, isLoading, banners, inFlight>>

(* the truthiness test of a string that may be undefined *)
Truthy(s) == s # Undefined /\ s # <<>>

(* const info = props.inviteCode ? {...} : undefined, as the set of its  *)
(* value, empty when it is undefined                                     *)
SSOInfo ==
    IF Truthy(props.inviteCode)
    THEN { [type |-> "JoinTeam", inviteCode |-> props.inviteCode] }
    ELSE {}

onClickGithubSignup ==
    /\ out' = << [kind |-> "track", event |-> "Provider Auth Selected",
                  provider |-> "GitHub"],
                 [kind |-> "dispatch", type |-> "startSSOSignin",
                  provider |-> "github", info |-> SSOInfo] >>
    /\ ev' = [op |-> "github"]
    /\ UNCHANGED <<props, fields, flags, isLoading, banners, inFlight>>

Next ==
    \/ \E field \in FieldNames : \E value \in FieldValues(field) :
          TextInputChange(field, value)
    \/ onSubmit
    \/ \E c \in BagToSet(inFlight) : \E r \in Results : onSubmitResume(c, r)
    \/ onClickGoBack
    \/ onClickGithubSignup

Spec == Init /\ [][Next]_vars

----------------------------------------------------------------------------
(* The callback on its own: onValidityChanged is handed to the inputs as  *)
(* a prop and takes any field name and any validity.                      *)

CallbackNames == FieldNames \cup {"other"}

ValidityChangedCall(field, validity) ==
    /\ SetValidity(onValidityChanged(Validity, field, validity))
    /\ ev' = [op |-> "validity", field |-> field, validity |-> validity]
    /\ out' = <<>>
    /\ UNCHANGED <<props, fields, isLoading, banners, inFlight>>

(* the fields typed into in this specification; the full name stays     *)
(* empty, so that every submit ends at the gate                          *)
CallbackFields == {"email", "username", "password"}

CallbackNext ==
    \/ \E field \in CallbackNames : \E validity \in BOOLEAN :
          ValidityChangedCall(field, validity)
    \/ \E field \in CallbackFields : \E value \in FieldValues(field) :
          TextInputChange(field, value)
    \/ onSubmit

CallbackSpec == Init /\ [][CallbackNext]_vars

----------------------------------------------------------------------------
(* The validators on their own: the form is opened with a pre-filled      *)
(* email drawn from the strings over a small alphabet, or a username is   *)
(* typed into it, and the form is submitted, which computes the validity  *)
(* of every field.                                                        *)

(* the longest email and username over the whole alphabet *)
MaxEmailLen == 5
MaxShortUsernameLen == 2
(* the longest username and label of one repeated letter *)
MaxUsernameLen == 23
MaxLabelLen == 65

EmailAlphabet == {"a", "-", ".", "@"}
UsernameAlphabet == {"a", "Z", "0", "-", "_", ".", " ", "@"}

Strings(A, n) == UNION { [1..k -> A] : k \in 0..n }
Repeat(ch, n) == [i \in 1..n |-> ch]

EmailInputs ==
    Strings(EmailAlphabet, MaxEmailLen)
    \cup { <<"a", "@">> \o Repeat("a", n) : n \in 61..MaxLabelLen }
    \cup { <<"a", "@", "a", ".">> \o Repeat("a", n) : n \in 61..MaxLabelLen }

UsernameInputs ==
    Strings(UsernameAlphabet, MaxShortUsernameLen)
    \cup { Repeat("a", n) : n \in 0..MaxUsernameLen }
    \cup { Repeat("a", n) \o <<" ">> : n \in 18..(MaxUsernameLen - 1) }
    \cup { Repeat("a", n) \o <<".">> : n \in 18..(MaxUsernameLen - 1) }

ValidatorProps ==
    { [email |-> e, inviteCode |-> Undefined, teamId |-> Undefined,
       type |-> "undefined"] : e \in EmailInputs }

ValidatorInit ==
    /\ props \in ValidatorProps
    /\ email = (IF props.email = Undefined THEN <<>> ELSE props.email)
    /\ emailValidity = TRUE
    /\ username = <<>>
    /\ usernameValidity = TRUE
    /\ password = <<>>
    /\ passwordValidity = TRUE
    /\ fullName = <<>>
    /\ fullNameValidity = TRUE
    /\ companyName = <<>>
    /\ companyNameValidity = TRUE
    /\ isLoading = FALSE
    /\ unexpectedError = FALSE
    /\ inviteConflict = FALSE
    /\ inFlight = EmptyBag
    /\ ev = [op |-> "init"]
    /\ out = <<>>

(* a username is typed into the form that was opened without an email *)
TypeUsername(value) ==
    /\ email = <<>>
    /\ TextInputChange("username", value)

ValidatorNext ==
    \/ \E value \in UsernameInputs : TypeUsername(value)
    \/ onSubmit

ValidatorSpec == ValidatorInit /\ [][ValidatorNext]_vars

----------------------------------------------------------------------------
(* Properties *)

Answered == ev.op = "answer"
AnsweredWith(st) == Answered /\ ev.result.ok /\ ev.result.status = st
Submitted == ev.op = "submit"

Dispatches(o) == SelectSeq(o, LAMBDA e : e.kind = "dispatch")
Tracks(o) == SelectSeq(o, LAMBDA e : e.kind = "track")
Logs(o) == SelectSeq(o, LAMBDA e : e.kind = "logError")
Sends(o) == SelectSeq(o, LAMBDA e : e.kind = "send")

(* the field values satisfy the gate as the specification words it *)
FieldsValid ==
    /\ email # <<>> /\ isEmailValid(email)
    /\ isUsernameValid(username)
    /\ password # <<>> /\ isPasswordValid(password)
    /\ fullName # <<>>
    /\ (wasInvited \/ companyName # <<>>)

(* C1: a submit sends a registration request only if the field values at *)
(* the moment of the submit pass every validator of the gate, and aborts  *)
(* with no network call otherwise, on the first submit too.  onSubmit     *)
(* leaves the field values alone, so they are those of the state reached. *)
C1_SubmitSendsOnlyValidFields ==
    Submitted => /\ ev.sent => FieldsValid
                 /\ ~ev.sent => Sends(out) = <<>>
                 /\ ~FieldsValid => Sends(out) = <<>>

(* C2: the number of registration requests sent and not yet answered is   *)
(* 0 or 1 in every reachable state.                                       *)
C2_AtMostOneInFlight == BagCardinality(inFlight) <= 1

(* the statuses onSubmit has a case for *)
Recognised == {"Success", "NotOnTeam", "AlreadyConfirmed", "InviteConflict"}

(* the answered call failed or returned a status without a case *)
AnsweredFailure ==
    Answered /\ (~ev.result.ok \/ ev.result.status \notin Recognised)

(* C3: an attempt answered with Success dispatches exactly one navigation *)
(* action, goToEmailConfirmation, whose email and registrationParams are  *)
(* the attributes sent in the request of that attempt, whatever the       *)
(* fields have become since.                                              *)
C3_SuccessGoesToEmailConfirmation ==
    AnsweredWith("Success") =>
        LET d == Dispatches(out) IN
        /\ Len(d) = 1
        /\ d[1].type = "goToEmailConfirmation"
        /\ d[1].email = ev.closure.attributes.email
        /\ d[1].registrationParams = ev.closure.attributes

(* a Success arrives after the user changed the email of the form *)
C3_Witness ==
    /\ AnsweredWith("Success")
    /\ email # ev.closure.attributes.email
    /\ Len(Dispatches(out)) = 1

(* C4: an attempt answered with InviteConflict dispatches nothing, emits  *)
(* no telemetry and logs no error; it sets inviteConflict, leaves         *)
(* unexpectedError as it was and clears isLoading.                        *)
C4_InviteConflictStaysOnForm ==
    [][ (ev'.op = "answer" /\ ev'.result.ok
            /\ ev'.result.status = "InviteConflict")
        => /\ out' = <<>>
           /\ inviteConflict'
           /\ unexpectedError' = unexpectedError
           /\ ~isLoading' ]_vars

(* an InviteConflict has been answered and only its banner is up *)
C4_Witness ==
    /\ AnsweredWith("InviteConflict")
    /\ inviteConflict
    /\ ~unexpectedError
    /\ ~isLoading

(* C5: an attempt whose call fails, or returns a status outside the four  *)
(* recognised ones, logs the error exactly once with the submitted email  *)
(* and the invite code, sets unexpectedError, dispatches nothing, emits   *)
(* no telemetry and ends with isLoading false.                            *)
C5_FailureIsLoggedAndShown ==
    AnsweredFailure =>
        /\ Len(out) = 1
        /\ out[1].kind = "logError"
        /\ out[1].email = ev.closure.attributes.email
        /\ out[1].inviteCode = props.inviteCode
        /\ unexpectedError
        /\ ~isLoading

(* a rejected call and an unrecognised status, each after an edit of the  *)
(* email while the call was in flight                                     *)
C5_Witness ==
    /\ AnsweredFailure
    /\ email # ev.closure.attributes.email
    /\ unexpectedError
    /\ Len(Logs(out)) = 1

SomeFlagFalse ==
    \/ ~emailValidity \/ ~usernameValidity \/ ~passwordValidity
    \/ ~fullNameValidity \/ ~companyNameValidity

AllFlagsFalse ==
    /\ ~emailValidity /\ ~usernameValidity /\ ~passwordValidity
    /\ ~fullNameValidity /\ ~companyNameValidity

Count(b) == IF b THEN 1 ELSE 0

(* C6 as stated: in every reachable state at most one of the three        *)
(* failure categories holds: a validity flag is false, inviteConflict is  *)
(* true, unexpectedError is true.                                         *)
C6_FailureCategoriesExclusive ==
    Count(SomeFlagFalse) + Count(inviteConflict) + Count(unexpectedError) <= 1

(* C6 as amended: the categories are exclusive for each attempt.  Every   *)
(* submit starts by clearing both banners, so an attempt aborted at the   *)
(* gate leaves both down; the answer of an attempt raises at most one     *)
(* banner, inviteConflict only for InviteConflict and unexpectedError     *)
(* only for a failure, and changes no validity flag.                      *)
C6_OneCategoryPerAttempt ==
    [][ /\ ev'.op = "submit" => (~inviteConflict' /\ ~unexpectedError')
        /\ ev'.op = "answer" =>
              /\ ~(inviteConflict' # inviteConflict
                     /\ unexpectedError' # unexpectedError)
              /\ inviteConflict' # inviteConflict =>
                     (ev'.result.ok /\ ev'.result.status = "InviteConflict")
              /\ unexpectedError' # unexpectedError =>
                     (~ev'.result.ok \/ ev'.result.status \notin Recognised)
              /\ flags' = flags ]_vars

(* an answer raised the invite-conflict banner alone, while a validity    *)
(* flag is false                                                          *)
C6_Witness ==
    /\ AnsweredWith("InviteConflict")
    /\ inviteConflict
    /\ ~unexpectedError
    /\ SomeFlagFalse

AllFieldsEmpty ==
    /\ email = <<>> /\ username = <<>> /\ password = <<>>
    /\ fullName = <<>> /\ companyName = <<>>

(* C7: a submit with all five fields empty, invited or not, sends no      *)
(* registration request and leaves the five validity flags false.         *)
C7_EmptySubmitSendsNothing ==
    [][ (ev'.op = "submit" /\ AllFieldsEmpty)
        => /\ ~ev'.sent
           /\ out' = <<>>
           /\ inFlight' = inFlight
           /\ AllFlagsFalse' ]_vars

(* the empty invited form has been submitted *)
C7_Witness ==
    /\ Submitted
    /\ AllFieldsEmpty
    /\ wasInvited
    /\ AllFlagsFalse

(* the gate of onSubmit on the four fields other than companyName *)
OtherFourPass ==
    /\ email # <<>> /\ emailValidity
    /\ usernameValidity
    /\ password # <<>> /\ passwordValidity
    /\ fullName # <<>> /\ fullNameValidity

(* C8: in an invited form a submit whose other four fields pass the gate  *)
(* sends a registration request, whatever companyName and its validity    *)
(* flag are.                                                              *)
C8_InvitedIgnoresCompanyName ==
    [][ (ev'.op = "submit" /\ wasInvited /\ OtherFourPass)
        => /\ ev'.sent
           /\ Len(Sends(out')) = 1
           /\ BagCardinality(inFlight') = BagCardinality(inFlight) + 1 ]_vars

(* an invited form sent a second request: its first submit had already    *)
(* turned the companyName flag false, and companyName is empty            *)
C8_Witness ==
    /\ Submitted
    /\ ev.sent
    /\ wasInvited
    /\ companyName = <<>>
    /\ ~companyNameValidity
    /\ BagCardinality(inFlight) = 2

(* C9: when the registration call of an attempt completes, with any       *)
(* status or with a failure, the attempt ends with isLoading false.       *)
C9_AnswerClearsIsLoading == Answered => ~isLoading

(* a rejected call has been handled *)
C9_Witness ==
    /\ Answered
    /\ ~ev.result.ok
    /\ ~isLoading

(* C10: an attempt answered with Success, NotOnTeam or AlreadyConfirmed   *)
(* emits Account Created exactly once, before its navigation action, with *)
(* the submitted email; Changed Invite Email? is set only in an invited   *)
(* form, to whether the submitted email differs from props.email.  An     *)
(* InviteConflict, a failed call and a submit aborted at the gate emit    *)
(* no telemetry.                                                          *)
C10_AccountCreatedTelemetry ==
    /\ Answered =>
          IF ev.result.ok /\ ev.result.status \in {"Success", "NotOnTeam", "AlreadyConfirmed"}
          THEN /\ Len(Tracks(out)) = 1
               /\ Len(out) = 2
               /\ out[1].kind = "track"
               /\ out[2].kind = "dispatch"
               /\ out[1].event = "Account Created"
               /\ out[1].email = ev.closure.attributes.email
               /\ out[1].changedInviteEmail =
                     (IF wasInvited
                      THEN {ev.closure.attributes.email # props.email}
                      ELSE {})
          ELSE Tracks(out) = <<>>
    /\ Submitted => Tracks(out) = <<>>

(* an invited user who replaced the invited email has been told to create *)
(* a team                                                                 *)
C10_Witness ==
    /\ AnsweredWith("NotOnTeam")
    /\ wasInvited
    /\ ev.closure.attributes.email # props.email
    /\ out[1].changedInviteEmail = {TRUE}

(* C11: the navigation action of an attempt follows from the status:     *)
(* NotOnTeam dispatches one goToTeamCreation with the token of the        *)
(* response and the submitted email, AlreadyConfirmed one completeSignup  *)
(* with the submitted email, the token, props.teamId and createdTeam      *)
(* false; an attempt dispatches at most one navigation action, and none   *)
(* before its call is answered.                                           *)
C11_NavigationFollowsStatus ==
    /\ Answered => Len(Dispatches(out)) <= 1
    /\ Submitted => Dispatches(out) = <<>>
    /\ AnsweredWith("NotOnTeam") =>
          Dispatches(out) =
             << [kind |-> "dispatch", type |-> "goToTeamCreation",
                 token |-> ev.result.token,
                 email |-> ev.closure.attributes.email] >>
    /\ AnsweredWith("AlreadyConfirmed") =>
          Dispatches(out) =
             << [kind |-> "dispatch", type |-> "completeSignup",
                 email |-> ev.closure.attributes.email,
                 token |-> ev.result.token,
                 teamId |-> props.teamId,
                 createdTeam |-> FALSE] >>

(* an invited user is already confirmed; the email of the form has been   *)
(* edited since the submit                                                *)
C11_Witness ==
    /\ AnsweredWith("AlreadyConfirmed")
    /\ ev.result.token = OtherToken
    /\ props.teamId = TeamId
    /\ email # ev.closure.attributes.email
    /\ Len(Dispatches(out)) = 1

(* a label as documented: 1 to 63 alphanumeric-or-hyphen characters that  *)
(* begin and end with an alphanumeric                                     *)
DocumentedLabel(s) ==
    /\ Len(s) \in 1..63
    /\ \A i \in 1..Len(s) : s[i] \in Letters \cup Digits \cup {"-"}
    /\ s[1] \in Letters \cup Digits
    /\ s[Len(s)] \in Letters \cup Digits

(* labels separated by literal dots: every stretch between two            *)
(* neighbouring dots, or between a dot and an end, is a label             *)
DocumentedDomain(t) ==
    LET cuts == {0, Len(t) + 1} \cup {i \in 1..Len(t) : t[i] = "."}
    IN  \A i \in cuts : \A j \in cuts :
            (i < j /\ ~\E k \in cuts : i < k /\ k < j)
                => DocumentedLabel(SubSeq(t, i + 1, j - 1))

DocumentedEmail(s) ==
    /\ s # <<>>
    /\ \E p \in 2..Len(s) :
          /\ s[p] = "@"
          /\ \A i \in 1..(p - 1) : s[i] \in LocalChars
          /\ DocumentedDomain(SubSeq(s, p + 1, Len(s)))

(* C12: isEmailValid(s) is true iff s is non-empty and has the form       *)
(* local @ label (. label)*, the labels separated by literal dots only.   *)
(* The submit sets emailValidity to isEmailValid of the email.            *)
C12_EmailValidatorMatchesPattern ==
    Submitted => (emailValidity <=> DocumentedEmail(email))

(* C13: isUsernameValid(s) is true iff s has 1 to 21 characters, each a   *)
(* letter, a digit, a hyphen, an underscore or a dot.  The submit sets    *)
(* usernameValidity to isUsernameValid of the username.                   *)
C13_UsernameValidatorMatchesRule ==
    Submitted =>
        (usernameValidity <=>
            /\ Len(username) >= 1
            /\ Len(username) <= 21
            /\ \A i \in 1..Len(username) :
                  username[i] \in Letters \cup Digits \cup {"-", "_", "."})

(* a username of 22 allowed characters has been submitted and rejected *)
C13_Witness ==
    /\ Submitted
    /\ Len(username) = 22
    /\ \A i \in 1..22 : username[i] \in Letters \cup {"."}
    /\ ~usernameValidity

(* C14: back navigation dispatches exactly one action, goToJoinTeam when  *)
(* props.type is JoinTeam and goToNewUserEntry when it is CreateTeam or   *)
(* absent; it sends no request, emits no telemetry and changes no field,  *)
(* flag, banner or isLoading.                                             *)
C14_BackNavigation ==
    [][ ev'.op = "back"
        => /\ out' = << [kind |-> "dispatch",
                         type |-> IF props.type = "JoinTeam"
                                  THEN "goToJoinTeam"
                                  ELSE "goToNewUserEntry"] >>
           /\ UNCHANGED <<fields, flags, isLoading, banners, inFlight>> ]_vars

(* the user of a CreateTeam form went back while a request was in flight *)
C14_Witness ==
    /\ ev.op = "back"
    /\ props.type = "CreateTeam"
    /\ out[1].type = "goToNewUserEntry"
    /\ BagCardinality(inFlight) = 1
    /\ isLoading

(* C15: GitHub sign-up emits Provider Auth Selected with Provider GitHub  *)
(* and then dispatches one startSSOSignin with provider github, which     *)
(* carries the context {JoinTeam, inviteCode} iff wasInvited.             *)
C15_GithubCarriesInviteContext ==
    ev.op = "github" =>
        out = << [kind |-> "track", event |-> "Provider Auth Selected",
                  provider |-> "GitHub"],
                 [kind |-> "dispatch", type |-> "startSSOSignin",
                  provider |-> "github",
                  info |-> IF wasInvited
                           THEN { [type |-> "JoinTeam",
                                   inviteCode |-> props.inviteCode] }
                           ELSE {}] >>

(* C16: a registration request carries the field values of the moment of *)
(* its submit: email, username, password and fullName are the fields,     *)
(* inviteCode is that of the props, and companyName is the field in a     *)
(* form that was not invited and undefined in one that was.               *)
C16_RequestCarriesFields ==
    [][ (ev'.op = "submit" /\ ev'.sent)
        => out' = << [kind |-> "send",
                      attributes |->
                         [email |-> email, username |-> username,
                          password |-> password, fullName |-> fullName,
                          inviteCode |-> props.inviteCode,
                          companyName |->
                             IF props.inviteCode # Undefined
                             THEN Undefined ELSE companyName]] >> ]_vars

(* an invited form sent its request without a company name *)
C16_Witness ==
    /\ Submitted
    /\ ev.sent
    /\ props.inviteCode = InviteCode
    /\ Len(out) = 1
    /\ out[1].attributes.companyName = Undefined
    /\ out[1].attributes.email = email

(* C17 as stated: a submit aborted at the gate leaves the field values,   *)
(* isLoading, inviteConflict and unexpectedError as they were, and emits, *)
(* logs and dispatches nothing.                                           *)
C17_AbortChangesOnlyFlags ==
    [][ (ev'.op = "submit" /\ ~ev'.sent)
        => /\ UNCHANGED <<fields, isLoading, inviteConflict, unexpectedError>>
           /\ out' = <<>> ]_vars

(* C17 as amended: a submit aborted at the gate changes nothing but the   *)
(* five validity flags and the two banners, which it sets to false: the   *)
(* field values, isLoading and the calls in flight are as they were, and  *)
(* it emits, logs and dispatches nothing.                                 *)
C17_AbortChangesFlagsAndBanners ==
    [][ (ev'.op = "submit" /\ ~ev'.sent)
        => /\ UNCHANGED <<fields, isLoading, inFlight>>
           /\ ~inviteConflict'
           /\ ~unexpectedError'
           /\ out' = <<>> ]_vars

(* a submit was aborted at the gate while a banner was up *)
C17_Witness ==
    /\ Submitted
    /\ ~ev.sent
    /\ ev.banner
    /\ ~inviteConflict
    /\ ~unexpectedError
    /\ ~isLoading

AllFlagsTrue ==
    /\ emailValidity /\ usernameValidity /\ passwordValidity
    /\ fullNameValidity /\ companyNameValidity

(* C18: the five validity flags are true initially; a validity update for *)
(* one field name sets the flag of that field and leaves the other four   *)
(* flags, the field values, isLoading and the banners alone; an update    *)
(* for an unknown name changes nothing; a keystroke changes no flag but   *)
(* that of its field; and after a submit every flag is its validator      *)
(* applied to the field value of that submit.                             *)
C18_FlagsChangeByNameOrSubmit ==
    /\ [](ev.op = "init" => AllFlagsTrue)
    /\ [][ /\ ev'.op = "validity" =>
                 /\ \A f \in FieldNames :
                       Validity'[f] = IF f = ev'.field THEN ev'.validity
                                      ELSE Validity[f]
                 /\ UNCHANGED <<fields, isLoading, banners, inFlight>>
           /\ ev'.op = "change" =>
                 \A f \in FieldNames \ {ev'.field} : Validity'[f] = Validity[f]
           /\ ev'.op = "submit" =>
                 /\ emailValidity' = (email # <<>> /\ EmailRegexTest(email))
                 /\ usernameValidity' = isUsernameValid(username)
                 /\ passwordValidity' = (Len(password) >= 6)
                 /\ fullNameValidity' = (fullName # <<>>)
                 /\ companyNameValidity' = (companyName # <<>>) ]_vars

(* the username was reported invalid while every other flag stayed true *)
C18_Witness ==
    /\ ev.op = "validity"
    /\ ev.field = "username"
    /\ ~ev.validity
    /\ ~usernameValidity
    /\ emailValidity /\ passwordValidity
    /\ fullNameValidity /\ companyNameValidity

(* the fields and the flags the handler reads pass the gate of onSubmit *)
GatePasses ==
    /\ OtherFourPass
    /\ wasInvited \/ (companyName # <<>> /\ companyNameValidity)

(* C19: an attempt that ends with a banner ends with isLoading false;     *)
(* every submit sets both banners to false, whatever its outcome, and     *)
(* sends a request when the fields pass the gate, also after a banner;    *)
(* only a submit sends a request.                                         *)
C19_RetryAfterBanner ==
    [][ /\ (ev'.op = "answer" /\ (inviteConflict' \/ unexpectedError'))
              => ~isLoading'
        /\ ev'.op = "submit" =>
              /\ ~inviteConflict'
              /\ ~unexpectedError'
              /\ GatePasses =>
                    /\ ev'.sent
                    /\ Len(Sends(out')) = 1
                    /\ BagCardinality(inFlight') = BagCardinality(inFlight) + 1
        /\ (Sends(out') # <<>>
              \/ BagCardinality(inFlight') > BagCardinality(inFlight))
              => ev'.op = "submit" ]_vars

(* a request was sent by a submit that began with a banner up *)
C19_Witness ==
    /\ Submitted
    /\ ev.sent
    /\ ev.banner
    /\ ~inviteConflict
    /\ ~unexpectedError
    /\ isLoading

(* C20: in every reachable state, if a registration request has been sent *)
(* and not yet answered then isLoading is true.                           *)
C20_LoadingWhileInFlight == BagCardinality(inFlight) > 0 => isLoading

====
